---- MODULE Spec2Model ----
(***************************************************************************)
(* Model of yusb.c, the Yorick binding to libusb.                          *)
(*                                                                         *)
(* The interpreter is single threaded: every built-in (Y_usb_...) runs to  *)
(* its return or to the y_error() that aborts it, so each built-in is one  *)
(* action.  What the native library answers (status codes, device counts,  *)
(* bytes moved) is an input of the action, drawn from small sets.          *)
(*                                                                         *)
(* A built-in is written as an operator from the program state (a record   *)
(* of the C globals, the native library's resources and the device         *)
(* objects) to the program state after it; the field "raised" says that    *)
(* y_error() was called, which ends the built-in at that point.            *)
(***************************************************************************)
EXTENDS Integers, Sequences, FiniteSets

(* ------------------------------ bounds --------------------------------- *)
MaxDevices == 2   \* devices the native library may report in one list
MaxObjects == 1   \* device objects created by usb_open_device
MaxLists   == 2   \* native device lists alive at once (leaked ones included)
MaxSize    == 2   \* byte size of the caller's buffer

NULL == 0

(* libusb status codes used by the code (libusb.h) *)
LIBUSB_SUCCESS         == 0
LIBUSB_ERROR_IO        == 0 - 1
LIBUSB_ERROR_ACCESS    == 0 - 3
LIBUSB_ERROR_NO_DEVICE == 0 - 4
LIBUSB_ERROR_TIMEOUT   == 0 - 7

VARIABLES
  ctx,        \* static libusb_context* ctx: NULL or the context
  dev_list,   \* static libusb_device** dev_list: "null", "live" or "stale"
  dev_count,  \* static ssize_t dev_count
  native,     \* resources of the native library and of the interpreter
  objs,       \* the device objects (ydev_instance_t) pushed by ypush_obj
  acc,        \* the caller's "bytes transferred" variable
  quit,       \* the interpreter has quit
  last        \* what the most recent built-in did

vars == <<ctx, dev_list, dev_count, native, objs, acc, quit, last>>

(* The program state as one record *)
G == [ctx |-> ctx, dev_list |-> dev_list, dev_count |-> dev_count,
      native |-> native, objs |-> objs, acc |-> acc,
      raised |-> FALSE, err |-> "", errCode |-> 0,
      heldAtRaise |-> FALSE, freedAfterLoad |-> FALSE,
      loaded |-> FALSE, obj |-> NULL, opens |-> 0, closes |-> 0,
      strlog |-> <<>>, ncalls |-> 0, pushKind |-> "none", pushInt |-> 0]

(* y_error(msg): the built-in ends here.  heldAtRaise records whether the  *)
(* device list was still held (dev_count > 0) when the error was raised.   *)
y_error(g, msg, code) ==
  [g EXCEPT !.raised = TRUE, !.err = msg, !.errCode = code,
            !.heldAtRaise = (g.dev_count > 0),
            !.pushKind = "none", !.pushInt = 0]

(* ypush_nil, ypush_int, push_string, ypush_obj, ypush_i: the value on top *)
(* of the interpreter's stack is what the built-in returns                 *)
ypush(g, kind, v) == [g EXCEPT !.pushKind = kind, !.pushInt = v]

(* failure(reason, code): y_error with the description of code, or with    *)
(* "reason [name]"; the text keeps the reason, errCode the code.           *)
failure(g, reason, code) ==
  y_error(g, IF reason = "" THEN "libusb error" ELSE reason, code)

(* ------------------------- native library ------------------------------ *)
(* libusb_free_device_list(list, 1): frees a list the library returned;    *)
(* freeing a pointer that holds no live list is a double (or wild) free.   *)
libusb_free_device_list(g) ==
  IF g.dev_list = "live"
  THEN [g EXCEPT !.dev_list = "stale",
                 !.native.lists = @ - 1]
  ELSE [g EXCEPT !.native.double_free = TRUE]

(* libusb_get_device_list(ctx, &dev_list): a negative status and no list,  *)
(* or a count >= 0 and a newly allocated list (also for zero devices).     *)
libusb_get_device_list(g, cnt) ==
  IF cnt < 0
  THEN [g EXCEPT !.dev_count = cnt]
  ELSE [g EXCEPT !.dev_count = cnt, !.dev_list = "live",
                 !.native.lists = @ + 1]

(* --------------------------- yusb.c ------------------------------------ *)
(* free_dev_list; "after_free_bad" notes a return of free_dev_list that    *)
(* leaves a non-zero count or a native list alive.                         *)
free_dev_list(g) ==
  LET g1 == IF g.dev_count > 0
            THEN libusb_free_device_list([g EXCEPT !.dev_count = 0])
            ELSE g
  IN [g1 EXCEPT !.freedAfterLoad = TRUE,
                !.native.after_free_bad =
                   @ \/ g1.dev_count # 0 \/ g1.native.lists # 0]

(* initialize: code is what libusb_init returns; on success the library    *)
(* stores a context, on failure it stores none (the two assertions of the  *)
(* code are for a library that breaks this).                               *)
initialize(g, code) ==
  IF g.ctx = NULL
  THEN IF code # 0
       THEN failure(g, "", code)
       ELSE [g EXCEPT !.ctx = 1,
                      !.native.contexts = @ + 1,
                      !.native.inits = @ + 1,
                      !.native.finalizers = @ + 1]
  ELSE g

(* #define INITIALIZE if (ctx != NULL) ; else initialize() *)
INITIALIZE(g, code) == IF g.ctx # NULL THEN g ELSE initialize(g, code)

load_device_list(g, code, cnt) ==
  LET g1 == INITIALIZE(g, code) IN
  IF g1.raised THEN g1 ELSE
  LET g2 == free_dev_list(g1)
      g3 == [libusb_get_device_list(g2, cnt) EXCEPT !.freedAfterLoad = FALSE]
  IN IF g3.dev_count < 0
     THEN y_error(g3, "failed to get USB devices list", 0)
     ELSE [g3 EXCEPT !.loaded = TRUE]

(* finalize testing ctx, already reset, in place of tmp: never exits *)
finalize_tests_ctx(g) ==
  LET g1  == [g EXCEPT !.ctx = NULL]
      g2  == free_dev_list(g1)
  IN IF g1.ctx # NULL
     THEN [g2 EXCEPT !.native.contexts = @ - 1, !.native.exits = @ + 1]
     ELSE g2

finalize(g) ==
  LET tmp == g.ctx
      g1  == [g EXCEPT !.ctx = NULL]
      g2  == free_dev_list(g1)
  IN IF tmp # NULL
     THEN [g2 EXCEPT !.native.contexts = @ - 1, !.native.exits = @ + 1]
     ELSE g2


(* ------------------------- device objects ------------------------------ *)
(* ydev_instance_t, with what the interpreter and the native library know  *)
(* of it: state ("unused" or "live"), whether usb_open_device              *)
(* returned it to the caller, and the native calls made on its device and  *)
(* handle so far (hist).                                                   *)
GARBAGE == 0 - 1   \* a handle the native library never opened
NoObject == [state |-> "unused", device |-> NULL, handle |-> NULL,
             returned |-> FALSE, hist |-> <<>>, used_closed |-> FALSE]

(* libusb_get_bus_number, libusb_get_port_number of dev_list[i] *)
bus_number(i)  == 1
port_number(i) == i + 1

(* the handle left as libusb_open left it *)
open_failed_keeps_handle(ob) == ob

(* obj->handle = NULL after a failed libusb_open *)
open_failed(ob) == [ob EXCEPT !.handle = NULL]

(* libusb_open(obj->device, &obj->handle): stores a handle on success and  *)
(* nothing on failure, where the field keeps what ypush_obj left there.    *)
libusb_open(ob, o, ret) ==
  IF ret < 0
  THEN [ob EXCEPT !.handle = GARBAGE, !.hist = Append(@, "open_failed")]
  ELSE [ob EXCEPT !.handle = o, !.hist = Append(@, "open")]

(* the loop of Y_usb_open_device from index i on *)
RECURSIVE open_scan(_, _, _, _, _, _, _)
open_scan(g, i, bus, port, o, openRet, descRet) ==
  IF i >= g.dev_count THEN g
  ELSE IF bus_number(i) = bus /\ port_number(i) = port
  THEN LET ob1 == [NoObject EXCEPT !.state = "live", !.device = i + 1,
                                   !.hist = <<"ref">>]
           ob2 == libusb_open(ob1, o, openRet)
           g1  == [g EXCEPT !.obj = o, !.objs[o] = ob2]
       IN IF openRet < 0
          THEN failure([g1 EXCEPT !.objs[o] = open_failed(ob2)],
                       "failed to open device", openRet)
          ELSE IF descRet # 0
          THEN failure(free_dev_list(g1),
                       "unable to get device descriptor", descRet)
          ELSE g1
  ELSE open_scan(g, i + 1, bus, port, o, openRet, descRet)

Y_usb_open_device(g, o, bus, port, code, cnt, openRet, descRet) ==
  LET g1 == load_device_list(g, code, cnt) IN
  IF g1.raised THEN g1 ELSE
  LET g2 == open_scan(g1, 0, bus, port, o, openRet, descRet) IN
  IF g2.raised THEN g2 ELSE
  LET g3 == free_dev_list(g2) IN
  IF g3.obj = NULL THEN ypush(g3, "nil", 0)
  ELSE ypush([g3 EXCEPT !.objs[o].returned = TRUE], "obj", o)

(* ydev_free: the interpreter calls it once, when the object is dropped *)
ydev_free(ob) ==
  LET ob1 == IF ob.handle # NULL
             THEN [ob EXCEPT !.hist = Append(@, "close")]
             ELSE ob
      ob2 == IF ob1.device # NULL
             THEN [ob1 EXCEPT !.hist = Append(@, "unref")]
             ELSE ob1
  IN ob2

(* the loop of Y__usb_probe_devices from index i on; descs[i + 1] is what  *)
(* libusb_get_device_descriptor returns for dev_list[i]                    *)
RECURSIVE probe_loop(_, _, _)
probe_loop(g, i, descs) ==
  IF i >= g.dev_count THEN g
  ELSE IF descs[i + 1] # 0
  THEN failure(free_dev_list(g), "unable to get device descriptor",
               descs[i + 1])
  ELSE probe_loop(g, i + 1, descs)

Y__usb_probe_devices(g, code, cnt, descs) ==
  LET g1 == load_device_list(g, code, cnt) IN
  IF g1.raised THEN g1 ELSE
  LET g2 == IF g1.dev_count > 0
            THEN probe_loop(ypush(g1, "array", g1.dev_count), 0, descs)
            ELSE ypush(g1, "nil", 0) IN
  IF g2.raised THEN g2 ELSE free_dev_list(g2)

(* ------------------------ string descriptors --------------------------- *)
(* one string resolution, as the log of the built-in keeps it: the index   *)
(* the caller gave, whether the native query was issued, the index it was  *)
(* issued with, its status, what came back ("unknown", "str", "status",    *)
(* "error") and whether the handle was closed                              *)
StrEntry(index, called, sent, code, result, closed) ==
  [index |-> index, called |-> called, sent |-> sent, code |-> code,
   result |-> result, closed |-> closed]

(* get_string_descriptor: libusb_get_string_descriptor_ascii with the      *)
(* index masked to 8 bits; the value is the index the library is given     *)
get_string_descriptor(index) == index % 256

(* the test of get_string on the status of the query *)
string_query_failed(code) == code # 0

(* get_string(handle, index): code is what the native query returns *)
get_string(g, index, code) ==
  IF index <= 0
  THEN [g EXCEPT !.strlog =
          Append(@, StrEntry(index, FALSE, 0, 0, "unknown", FALSE))]
  ELSE IF string_query_failed(code)
  THEN failure([g EXCEPT !.closes = @ + 1,
                  !.strlog = Append(@, StrEntry(index, TRUE,
                      get_string_descriptor(index), code, "error", TRUE))],
               "", code)
  ELSE [g EXCEPT !.strlog = Append(@, StrEntry(index, TRUE,
                      get_string_descriptor(index), code, "str", FALSE))]

(* the body of the loop of Y_usb_summary for one device d: its descriptor  *)
(* (iManufacturer, idProduct, iSerialNumber) and the native statuses       *)
summary_device(g, d) ==
  IF d.desc # 0 THEN failure(g, "", d.desc)
  ELSE IF d.open # 0 THEN g
  ELSE LET g1 == [g EXCEPT !.opens = @ + 1]
           g2 == get_string(g1, d.iManufacturer, d.codes[1]) IN
       IF g2.raised THEN g2 ELSE
       LET g3 == get_string(g2, d.idProduct, d.codes[2]) IN
       IF g3.raised THEN g3 ELSE
       LET g4 == get_string(g3, d.iSerialNumber, d.codes[3]) IN
       IF g4.raised THEN g4 ELSE [g4 EXCEPT !.closes = @ + 1]

RECURSIVE summary_loop(_, _, _)
summary_loop(g, i, devs) ==
  IF i >= g.dev_count THEN g
  ELSE LET g1 == summary_device(g, devs[i + 1]) IN
       IF g1.raised THEN g1 ELSE summary_loop(g1, i + 1, devs)

Y_usb_summary(g, code, cnt, devs) ==
  LET g1 == load_device_list(g, code, cnt) IN
  IF g1.raised THEN g1 ELSE
  LET g2 == summary_loop(g1, 0, devs) IN
  IF g2.raised THEN g2 ELSE ypush(free_dev_list(g2), "nil", 0)

(* a native call on the handle of object o *)
use_handle(g, o) ==
  [g EXCEPT !.objs[o].used_closed =
     @ \/ (\E k \in 1 .. Len(g.objs[o].hist) : g.objs[o].hist[k] = "close")]

(* Y_usb_get_string(obj, index): ret is what the native query returns *)
Y_usb_get_string(g, o, index, ret) ==
  LET g1 == use_handle(g, o) IN
  IF ret < 0
  THEN ypush([g1 EXCEPT !.strlog = Append(@, StrEntry(index, TRUE,
                 get_string_descriptor(index), ret, "status", FALSE))],
             "int", ret)
  ELSE ypush([g1 EXCEPT !.strlog = Append(@, StrEntry(index, TRUE,
                 get_string_descriptor(index), ret, "str", FALSE))],
             "string", 0)

Y_usb_debug(g, code) ==
  LET g1 == INITIALIZE(g, code) IN
  IF g1.raised THEN g1 ELSE ypush(g1, "nil", 0)

(* Y_usb_claim_interface and Y_usb_release_interface *)
Y_usb_claim_interface(g, o, sub, ret) ==
  LET g1 == use_handle(g, o) IN
  IF ret < 0 /\ sub THEN failure(g1, "", ret) ELSE ypush(g1, "int", ret)

Y_usb_release_interface(g, o, sub, ret) ==
  LET g1 == use_handle(g, o) IN
  IF ret < 0 /\ sub THEN failure(g1, "", ret) ELSE ypush(g1, "int", ret)

(* ----------------------------- transfers ------------------------------- *)
(* get_data: the byte size of a buffer of ntot elements of the given type  *)
(* (LP64 sizes), 0 for nil, -1 where the code raises "bad data type"       *)
get_data(type, ntot) ==
  CASE type = "nil"       -> 0
    [] type = "Y_CHAR"    -> ntot
    [] type = "Y_SHORT"   -> 2 * ntot
    [] type = "Y_INT"     -> 4 * ntot
    [] type = "Y_LONG"    -> 8 * ntot
    [] type = "Y_FLOAT"   -> 4 * ntot
    [] type = "Y_DOUBLE"  -> 8 * ntot
    [] type = "Y_COMPLEX" -> 2 * 8 * ntot
    [] OTHER              -> 0 - 1

(* ygets_i(1) & 0xffff *)
TwoPow16 == 65536
control_length(lengthArg) == lengthArg % TwoPow16

Y_usb_control_transfer(g, o, buf, lengthArg, sub, ret) ==
  LET size   == get_data(buf[1], buf[2])
      length == control_length(lengthArg) IN
  IF size < 0 THEN y_error(g, "bad data type", 0)
  ELSE IF length < 0 THEN y_error(g, "invalid length", 0)
  ELSE IF length > size
  THEN y_error(g, "length must be at most the size of the data", 0)
  ELSE LET g1 == [use_handle(g, o) EXCEPT !.ncalls = @ + 1] IN
       IF ret < 0 /\ sub THEN failure(g1, "", ret)
       ELSE ypush(g1, "int", ret)

(* apply_transfer raising on every negative status, whatever the style of *)
(* the call                                                                *)
apply_transfer_always_raises(g, o, length, offset, sub, ret, transferred) ==
  IF length > offset
  THEN LET g1 == [use_handle(g, o) EXCEPT !.ncalls = @ + 1]
           g2 == IF ret = 0 \/ ret = LIBUSB_ERROR_TIMEOUT
                 THEN [ypush(g1, "int", transferred + offset)
                         EXCEPT !.acc = transferred + offset]
                 ELSE g1
       IN IF ret < 0 THEN failure(g2, "", ret)
          ELSE ypush(g2, "int", ret)
  ELSE ypush(g, "int", 0)

(* apply_transfer storing the count of the last slice, without the offset *)
apply_transfer_drops_offset(g, o, length, offset, sub, ret, transferred) ==
  IF length > offset
  THEN LET g1 == [use_handle(g, o) EXCEPT !.ncalls = @ + 1]
           g2 == IF ret = 0 \/ ret = LIBUSB_ERROR_TIMEOUT
                 THEN [ypush(g1, "int", transferred)
                         EXCEPT !.acc = transferred]
                 ELSE g1
       IN IF ret < 0 /\ sub THEN failure(g2, "", ret)
          ELSE ypush(g2, "int", ret)
  ELSE ypush(g, "int", 0)

(* apply_transfer calling the native transfer for an empty slice too *)
apply_transfer_empty_slice(g, o, length, offset, sub, ret, transferred) ==
  IF length >= offset
  THEN LET g1 == [use_handle(g, o) EXCEPT !.ncalls = @ + 1]
           g2 == IF ret = 0 \/ ret = LIBUSB_ERROR_TIMEOUT
                 THEN [ypush(g1, "int", transferred + offset)
                         EXCEPT !.acc = transferred + offset]
                 ELSE g1
       IN IF ret < 0 /\ sub THEN failure(g2, "", ret)
          ELSE ypush(g2, "int", ret)
  ELSE ypush(g, "int", 0)

(* the "Apply operation" part of do_transfer: ret and transferred are what *)
(* the native transfer answers when it is called                           *)
apply_transfer(g, o, length, offset, sub, ret, transferred) ==
  IF length > offset
  THEN LET g1 == [use_handle(g, o) EXCEPT !.ncalls = @ + 1]
           g2 == IF ret = 0 \/ ret = LIBUSB_ERROR_TIMEOUT
                 THEN [ypush(g1, "int", transferred + offset)
                         EXCEPT !.acc = transferred + offset]
                 ELSE g1
       IN IF ret < 0 /\ sub THEN failure(g2, "", ret)
          ELSE ypush(g2, "int", ret)
  ELSE ypush(g, "int", 0)

(* do_transfer(argc, transfer): argc is 6 or 7, offsetArg is read when 7 *)
do_transfer(g, o, argc, buf, lengthArg, refIdx, offsetArg, sub, ret, transferred) ==
  LET size   == get_data(buf[1], buf[2])
      length == lengthArg
      offset == IF argc = 7 THEN offsetArg ELSE 0 IN
  IF size < 0 THEN y_error(g, "bad data type", 0)
  ELSE IF length < 0 THEN y_error(g, "invalid length", 0)
  ELSE IF length > size
  THEN y_error(g, "length must be at most the size of the data", 0)
  ELSE IF refIdx < 0
  THEN y_error(g, "expecting a simple variable reference", 0)
  ELSE IF offset < 0 \/ offset > length THEN y_error(g, "invalid offset", 0)
  ELSE apply_transfer(g, o, length, offset, sub, ret, transferred)

Y_usb_bulk_transfer(g, o, argc, buf, lengthArg, refIdx, offsetArg, sub, ret, transferred) ==
  do_transfer(g, o, argc, buf, lengthArg, refIdx, offsetArg, sub, ret, transferred)

Y_usb_interrupt_transfer(g, o, argc, buf, lengthArg, refIdx, offsetArg, sub, ret, transferred) ==
  do_transfer(g, o, argc, buf, lengthArg, refIdx, offsetArg, sub, ret, transferred)

(* ------------------------- the built-ins ------------------------------- *)
(* what the most recent built-in was given and did *)
Blank == [op |-> "none", raised |-> FALSE, err |-> "", errCode |-> 0,
          loaded |-> FALSE, heldAtRaise |-> FALSE, freedAfterLoad |-> FALSE,
          pushKind |-> "none", pushInt |-> 0,
          opens |-> 0, closes |-> 0, strlog |-> <<>>,
          sub |-> FALSE, argc |-> 0, buf |-> <<"nil", 0>>, lengthArg |-> 0,
          refIdx |-> 0, offsetArg |-> 0, ncalls |-> 0, ret |-> 0,
          transferred |-> 0, accBefore |-> 0, hist |-> <<>>]

InitCodes == {LIBUSB_SUCCESS, LIBUSB_ERROR_ACCESS}
Counts    == {LIBUSB_ERROR_IO} \cup (0 .. MaxDevices)
OpenCodes == {LIBUSB_SUCCESS, LIBUSB_ERROR_ACCESS}
DescCodes == {LIBUSB_SUCCESS, LIBUSB_ERROR_IO}
Buses     == {1, 2}
Ports     == 1 .. (MaxDevices + 1)

(* devices as Y_usb_summary meets them: the statuses of the descriptor     *)
(* query and of the open, the three fields it resolves as strings, and the *)
(* statuses of the three string queries (a count of bytes on success)      *)
Device(desc, open, im, idp, isn, codes) ==
  [desc |-> desc, open |-> open, iManufacturer |-> im, idProduct |-> idp,
   iSerialNumber |-> isn, codes |-> codes]
SummaryDevices ==
  { Device(LIBUSB_ERROR_IO, 0, 0, 0, 0, <<0, 0, 0>>),
    Device(0, LIBUSB_ERROR_ACCESS, 1, 2, 3, <<0, 0, 0>>),
    Device(0, 0, 0, 0, 0, <<0, 0, 0>>),
    Device(0, 0, 1, 2, 3, <<0, 0, 0>>),
    Device(0, 0, 1, 2, 3, <<4, 4, 4>>),
    Device(0, 0, 1, 2, 3, <<0, LIBUSB_ERROR_IO, 0>>),
    Device(0, 0, 0, 0, 3, <<0, 0, LIBUSB_ERROR_NO_DEVICE>>) }

StringIndexes == {0 - 256, 0 - 1, 0, 1}
StringCodes   == {LIBUSB_ERROR_IO, 0, 4}
StatusCodes   == {LIBUSB_SUCCESS, LIBUSB_ERROR_NO_DEVICE}

Buffers   == {<<"nil", 0>>, <<"Y_SHORT", 1>>, <<"Y_STRING", 1>>}
               \cup {<<"Y_CHAR", n>> : n \in 1 .. MaxSize}
Lengths   == (0 - 1) .. (MaxSize + 1)
ControlLengths == Lengths \cup {0 - TwoPow16, 1 - TwoPow16, TwoPow16, TwoPow16 + 1}
TransferCodes  == {LIBUSB_SUCCESS, LIBUSB_ERROR_TIMEOUT, LIBUSB_ERROR_IO,
                   LIBUSB_ERROR_NO_DEVICE}

(* the interpreter is at its prompt: the previous built-in has returned or *)
(* raised, its result has been taken, and the session has not quit         *)
Idle == ~quit /\ last.op = "none"

(* the devices of a list of cnt devices (none when cnt is a status) *)
Listed(cnt) == IF cnt > 0 THEN cnt ELSE 0

(* a load is modelled while the native library can still allocate a list *)
CanLoad == native.lists < MaxLists

(* the device objects the caller holds: get_device(iarg) *)
Held == {o \in 1 .. MaxObjects : objs[o].state = "live" /\ objs[o].returned}

(* The state after a built-in that ended in state g, with l what it was    *)
(* given                                                                   *)
Commit(g, l) ==
  /\ ctx' = g.ctx
  /\ dev_list' = g.dev_list
  /\ dev_count' = g.dev_count
  /\ native' = g.native
  /\ objs' = g.objs
  /\ acc' = g.acc
  /\ last' = [l EXCEPT !.raised = g.raised, !.err = g.err,
                       !.errCode = g.errCode, !.loaded = g.loaded,
                       !.heldAtRaise = g.heldAtRaise,
                       !.freedAfterLoad = g.freedAfterLoad,
                       !.pushKind = g.pushKind, !.pushInt = g.pushInt,
                       !.opens = g.opens, !.closes = g.closes,
                       !.strlog = g.strlog, !.ncalls = g.ncalls,
                       !.accBefore = acc]
  /\ UNCHANGED quit

Usb_debug ==
  /\ Idle
  /\ \E code \in InitCodes :
       Commit(Y_usb_debug(G, code), [Blank EXCEPT !.op = "usb_debug"])

Usb_summary ==
  /\ Idle /\ CanLoad
  /\ \E code \in InitCodes, cnt \in Counts :
     \E devs \in [1 .. Listed(cnt) -> SummaryDevices] :
       Commit(Y_usb_summary(G, code, cnt, devs),
              [Blank EXCEPT !.op = "usb_summary"])

Usb_open_device ==
  /\ Idle /\ CanLoad
  /\ \E o \in 1 .. MaxObjects :
       /\ objs[o].state = "unused"
       /\ \A p \in 1 .. (o - 1) : objs[p].state # "unused"
       /\ \E bus \in Buses, port \in Ports, code \in InitCodes, cnt \in Counts,
             openRet \in OpenCodes, descRet \in DescCodes :
            Commit(Y_usb_open_device(G, o, bus, port, code, cnt,
                                     openRet, descRet),
                   [Blank EXCEPT !.op = "usb_open_device"])

Usb_probe_devices ==
  /\ Idle /\ CanLoad
  /\ \E code \in InitCodes, cnt \in Counts :
     \E descs \in [1 .. Listed(cnt) -> DescCodes] :
       Commit(Y__usb_probe_devices(G, code, cnt, descs),
              [Blank EXCEPT !.op = "usb_probe_devices"])

Usb_get_string ==
  /\ Idle
  /\ \E o \in Held, index \in StringIndexes, ret \in StringCodes :
       Commit(Y_usb_get_string(G, o, index, ret),
              [Blank EXCEPT !.op = "usb_get_string", !.ret = ret])

Usb_claim_interface ==
  /\ Idle
  /\ \E o \in Held, sub \in BOOLEAN, ret \in StatusCodes :
       Commit(Y_usb_claim_interface(G, o, sub, ret),
              [Blank EXCEPT !.op = "usb_claim_interface", !.sub = sub,
                            !.ret = ret])

Usb_release_interface ==
  /\ Idle
  /\ \E o \in Held, sub \in BOOLEAN, ret \in StatusCodes :
       Commit(Y_usb_release_interface(G, o, sub, ret),
              [Blank EXCEPT !.op = "usb_release_interface", !.sub = sub,
                            !.ret = ret])

(* the interpreter drops a device object, finalizes it and takes its       *)
(* memory back; hist keeps the native calls made on it                     *)
Ydev_free ==
  /\ Idle
  /\ \E o \in 1 .. MaxObjects :
       /\ objs[o].state = "live"
       /\ objs' = [objs EXCEPT ![o] = NoObject]
       /\ last' = [Blank EXCEPT !.op = "ydev_free",
                                !.hist = ydev_free(objs[o]).hist]
  /\ UNCHANGED <<ctx, dev_list, dev_count, native, acc, quit>>

(* The interpreter quits: it runs every callback ycall_on_quit registered *)
RECURSIVE run_on_quit(_, _)
run_on_quit(g, n) == IF n = 0 THEN g ELSE run_on_quit(finalize(g), n - 1)

Quit ==
  /\ Idle
  /\ quit' = TRUE
  /\ LET g == run_on_quit(G, native.finalizers)
     IN /\ ctx' = g.ctx
        /\ dev_list' = g.dev_list
        /\ dev_count' = g.dev_count
        /\ native' = g.native
        /\ last' = [Blank EXCEPT !.op = "quit"]
  /\ UNCHANGED <<objs, acc>>

(* A control transfer; the native library answers (a status, or the count  *)
(* of bytes moved) only when it is called                                  *)
Usb_control_transfer ==
  /\ Idle
  /\ \E o \in Held, buf \in Buffers, lengthArg \in ControlLengths,
        sub \in BOOLEAN :
       LET l == [Blank EXCEPT !.op = "usb_control_transfer", !.buf = buf,
                              !.lengthArg = lengthArg, !.sub = sub]
           dry == Y_usb_control_transfer(G, o, buf, lengthArg, sub, 0)
       IN IF dry.ncalls = 0 THEN Commit(dry, l)
          ELSE \E ret \in (TransferCodes \cup (0 .. MaxSize)) :
                 /\ ret <= control_length(lengthArg)
                 /\ Commit(Y_usb_control_transfer(G, o, buf, lengthArg,
                                                  sub, ret),
                           [l EXCEPT !.ret = ret])

(* the arguments of a bulk or interrupt transfer: with 6 arguments there   *)
(* is no offset                                                            *)
TransferArgs ==
  {a \in [argc : {6, 7}, buf : Buffers, lengthArg : Lengths,
          refIdx : {0 - 1, 0}, offsetArg : Lengths, sub : BOOLEAN] :
     a.argc = 6 => a.offsetArg = 0}

Usb_bulk_transfer ==
  /\ Idle
  /\ \E o \in Held, a \in TransferArgs :
       LET l == [Blank EXCEPT !.op = "usb_bulk_transfer", !.argc = a.argc,
                   !.buf = a.buf, !.lengthArg = a.lengthArg,
                   !.refIdx = a.refIdx, !.offsetArg = a.offsetArg,
                   !.sub = a.sub]
           dry == Y_usb_bulk_transfer(G, o, a.argc, a.buf, a.lengthArg,
                                      a.refIdx, a.offsetArg, a.sub, 0, 0)
       IN IF dry.ncalls = 0 THEN Commit(dry, l)
          ELSE \E ret \in TransferCodes, t \in 0 .. MaxSize :
                 /\ t <= a.lengthArg - a.offsetArg
                 /\ Commit(Y_usb_bulk_transfer(G, o, a.argc, a.buf,
                               a.lengthArg, a.refIdx, a.offsetArg, a.sub,
                               ret, t),
                           [l EXCEPT !.ret = ret, !.transferred = t])

Usb_interrupt_transfer ==
  /\ Idle
  /\ \E o \in Held, a \in TransferArgs :
       LET l == [Blank EXCEPT !.op = "usb_interrupt_transfer",
                   !.argc = a.argc, !.buf = a.buf,
                   !.lengthArg = a.lengthArg, !.refIdx = a.refIdx,
                   !.offsetArg = a.offsetArg, !.sub = a.sub]
           dry == Y_usb_interrupt_transfer(G, o, a.argc, a.buf, a.lengthArg,
                                           a.refIdx, a.offsetArg, a.sub, 0, 0)
       IN IF dry.ncalls = 0 THEN Commit(dry, l)
          ELSE \E ret \in TransferCodes, t \in 0 .. MaxSize :
                 /\ t <= a.lengthArg - a.offsetArg
                 /\ Commit(Y_usb_interrupt_transfer(G, o, a.argc, a.buf,
                               a.lengthArg, a.refIdx, a.offsetArg, a.sub,
                               ret, t),
                           [l EXCEPT !.ret = ret, !.transferred = t])

(* the interpreter takes the result (or the error) of the built-in and     *)
(* comes back to its prompt                                                *)
Prompt ==
  /\ ~quit
  /\ last.op # "none"
  /\ last' = Blank
  /\ UNCHANGED <<ctx, dev_list, dev_count, native, objs, acc, quit>>

(* --------------------------- specifications ---------------------------- *)
NoNative == [contexts |-> 0, inits |-> 0, exits |-> 0, finalizers |-> 0,
             lists |-> 0, double_free |-> FALSE, after_free_bad |-> FALSE]

(* the state after the plug-in is loaded *)
Init ==
  /\ ctx = NULL
  /\ dev_list = "null"
  /\ dev_count = 0
  /\ native = NoNative
  /\ objs = [o \in 1 .. MaxObjects |-> NoObject]
  /\ acc = 0
  /\ quit = FALSE
  /\ last = Blank

Next ==
  \/ Usb_debug
  \/ Usb_summary
  \/ Usb_open_device
  \/ Usb_probe_devices
  \/ Usb_get_string
  \/ Usb_claim_interface
  \/ Usb_release_interface
  \/ Ydev_free
  \/ Quit
  \/ Prompt

Spec == Init /\ [][Next]_vars

(* Transfers: the state after one usb_open_device(1, 1) that found the     *)
(* device among those listed and returned object 1, the caller's variable  *)
(* holding any count of bytes                                              *)
InitTransfer ==
  /\ ctx = 1
  /\ dev_list = "stale"
  /\ dev_count = 0
  /\ native = [NoNative EXCEPT !.contexts = 1, !.inits = 1, !.finalizers = 1]
  /\ objs = [o \in 1 .. MaxObjects |->
               IF o = 1
               THEN [NoObject EXCEPT !.state = "live", !.device = 1,
                       !.handle = 1, !.returned = TRUE,
                       !.hist = <<"ref", "open">>]
               ELSE NoObject]
  /\ acc \in 0 .. MaxSize
  /\ quit = FALSE
  /\ last = Blank

NextTransfer ==
  \/ Usb_control_transfer
  \/ Usb_bulk_transfer
  \/ Usb_interrupt_transfer
  \/ Prompt

SpecTransfer == InitTransfer /\ [][NextTransfer]_vars

(* ------------------------------ claims --------------------------------- *)
LoadingOps  == {"usb_summary", "usb_open_device", "usb_probe_devices"}
SliceOps    == {"usb_bulk_transfer", "usb_interrupt_transfer"}
TransferOps == SliceOps \cup {"usb_control_transfer"}
InvalidArgument == {"invalid length",
                    "length must be at most the size of the data",
                    "invalid offset"}

(* the offset of a bulk or interrupt transfer: 0 when none was given *)
Offset(l) == IF l.argc = 7 THEN l.offsetArg ELSE 0
(* the length the caller gave is within the buffer *)
LengthOK(l) == 0 <= l.lengthArg /\ l.lengthArg <= get_data(l.buf[1], l.buf[2])
(* the offset the caller gave is within the length *)
OffsetOK(l) == l.op \in SliceOps => (0 <= Offset(l) /\ Offset(l) <= l.lengthArg)
(* the other arguments are accepted: a supported buffer, a variable *)
OthersOK(l) == get_data(l.buf[1], l.buf[2]) >= 0 /\ l.refIdx >= 0

Count(h, e) == Cardinality({k \in 1 .. Len(h) : h[k] = e})
Before(h, a, b) == \A i, j \in 1 .. Len(h) : (h[i] = a /\ h[j] = b) => i < j

(* C1: in usb_summary, usb_open_device and _usb_probe_devices, an error    *)
(* raised after load_device_list succeeded is raised with the device list  *)
(* released: free_dev_list was called and no list is held.                 *)
C1_ListReleasedBeforeError ==
  (last.op \in LoadingOps /\ last.loaded /\ last.raised)
    => (last.freedAfterLoad /\ ~last.heldAtRaise)

(* C2: a native transfer is issued only if the length the caller gave is   *)
(* within 0 .. buffer size (and the offset within 0 .. length); any other  *)
(* length or offset raises InvalidArgument and issues no native transfer.  *)
C2_TransferOnlyWithinBuffer ==
  last.op \in TransferOps =>
    /\ last.ncalls > 0 => (LengthOK(last) /\ OffsetOK(last))
    /\ (OthersOK(last) /\ ~(LengthOK(last) /\ OffsetOK(last)))
         => (last.raised /\ last.err \in InvalidArgument /\ last.ncalls = 0)

(* C3: a transfer whose native call returns a negative status either       *)
(* raises (called as a subroutine, nothing pushed) or returns that status  *)
(* (called for its value, nothing raised), never both and never neither.   *)
C3_DualFailureConvention ==
  (last.op \in TransferOps /\ last.ncalls = 1 /\ last.ret < 0) =>
    IF last.sub
    THEN last.raised /\ last.errCode = last.ret /\ last.pushKind = "none"
    ELSE ~last.raised /\ last.pushKind = "int" /\ last.pushInt = last.ret

C3_Witness ==
  /\ last.op = "usb_control_transfer" /\ last.ncalls = 1
  /\ last.ret = LIBUSB_ERROR_NO_DEVICE /\ last.sub /\ last.raised

(* C4: a bulk or interrupt transfer with offset O < length sets the        *)
(* caller's variable to O + T when the native call reports status 0 or a   *)
(* timeout with T bytes moved (also when the timeout is then raised), and  *)
(* leaves it unchanged on any other negative status.                       *)
C4_Accumulator ==
  (last.op \in SliceOps /\ OthersOK(last) /\ LengthOK(last)
     /\ OffsetOK(last) /\ Offset(last) < last.lengthArg) =>
    /\ last.ncalls = 1
    /\ IF last.ret \in {LIBUSB_SUCCESS, LIBUSB_ERROR_TIMEOUT}
       THEN acc = Offset(last) + last.transferred
       ELSE acc = last.accBefore

C4_Witness ==
  /\ last.op = "usb_bulk_transfer" /\ last.sub /\ last.raised
  /\ last.ret = LIBUSB_ERROR_TIMEOUT
  /\ Offset(last) = 1 /\ last.transferred = 1
  /\ acc = 2 /\ last.accBefore # 2

(* C5: a bulk or interrupt transfer with valid arguments and offset equal  *)
(* to length returns status 0, issues no native transfer and leaves the    *)
(* caller's variable unchanged, in both styles of call.                    *)
C5_EmptySliceIsNoOp ==
  (last.op \in SliceOps /\ OthersOK(last) /\ LengthOK(last)
     /\ Offset(last) = last.lengthArg) =>
    /\ ~last.raised
    /\ last.pushKind = "int" /\ last.pushInt = 0
    /\ last.ncalls = 0
    /\ acc = last.accBefore

C5_Witness ==
  /\ last.op = "usb_interrupt_transfer" /\ last.sub /\ last.argc = 7
  /\ last.lengthArg = 1 /\ last.offsetArg = 1 /\ last.buf = <<"Y_CHAR", 1>>
  /\ last.refIdx = 0 /\ ~last.raised /\ last.pushInt = 0

(* C6: a string resolution with index <= 0 issues no native query and      *)
(* gives the placeholder text, in get_string and in usb_get_string.        *)
C6_PlaceholderWithoutQuery ==
  \A k \in 1 .. Len(last.strlog) :
    last.strlog[k].index <= 0 =>
      (~last.strlog[k].called /\ last.strlog[k].result = "unknown")

(* C7: for every device object, whatever the outcome of the open: the      *)
(* handle is closed at most once and only if it was opened, the device     *)
(* reference is released exactly once, the close comes before the release, *)
(* and no native call uses the handle after it was closed.                 *)
C7_HandleLifecycle ==
  /\ \A o \in 1 .. MaxObjects :
       /\ ~objs[o].used_closed
       /\ Count(objs[o].hist, "close") = 0
       /\ Count(objs[o].hist, "unref") = 0
  /\ last.op = "ydev_free" =>
       /\ Count(last.hist, "close") <= 1
       /\ Count(last.hist, "close") = 1 => Count(last.hist, "open") = 1
       /\ Count(last.hist, "ref") = 1
       /\ Count(last.hist, "unref") = 1
       /\ Before(last.hist, "close", "unref")
       /\ Before(last.hist, "open", "close")

C7_Witness ==
  last.op = "ydev_free" /\ last.hist = <<"ref", "open_failed", "unref">>

(* C8: every return of free_dev_list leaves the held count at 0 and no     *)
(* native list held, and every list the native library returned is freed   *)
(* exactly once.                                                           *)
C8_FreeLeavesNothingHeld ==
  /\ ~native.after_free_bad
  /\ ~native.double_free
  /\ quit => native.lists = 0

(* C9: at most one context is live; the native init is called only when    *)
(* none is held, so calls after a successful one create no context and     *)
(* register no finalizer; a failed init leaves none held; finalize exits   *)
(* the held context once and leaves none held.                             *)
C9_SingleContext ==
  /\ native.contexts <= 1 /\ native.inits <= 1 /\ native.finalizers <= 1
  /\ native.finalizers = native.inits
  /\ (ctx # NULL) <=> (native.contexts = 1)
  /\ (last.op = "usb_debug" /\ last.raised)
       => (ctx = NULL /\ native.contexts = 0)
  /\ quit => (ctx = NULL /\ native.contexts = 0
              /\ native.exits = native.inits)
  /\ ~quit => native.exits = 0

C9_Witness == quit /\ native.inits = 1 /\ native.exits = 1

(* C10: get_string with index > 0 closes the handle and raises only when   *)
(* the native query reports a negative status; when the query succeeds     *)
(* (a count of bytes >= 0) it returns the string and leaves the handle     *)
(* open, and usb_summary closes each handle it opened exactly once.        *)
C10_StringErrorOnlyOnFailure ==
  last.op = "usb_summary" =>
    /\ \A k \in 1 .. Len(last.strlog) :
         last.strlog[k].index > 0 =>
           /\ last.strlog[k].result = "error" => last.strlog[k].code < 0
           /\ last.strlog[k].code >= 0 =>
                (last.strlog[k].result = "str" /\ ~last.strlog[k].closed)
    /\ last.closes = last.opens

====
